---- MODULE Spec2Model ----
(***************************************************************************)
(* A model of the survey analysis pipeline of lmu_survey_viz:              *)
(*   analyze_data.py     statistics, correlations, results.csv and         *)
(*                       assessment.txt                                    *)
(*   find_data_issues.py duplicates, zero values and participant           *)
(*                       completeness, written to data_issues.txt          *)
(*   app.py              the dashboard's reading of results.csv and its    *)
(*                       parsing of the metric names                       *)
(* Strings the code inspects character by character (metric names, the     *)
(* lines of results.csv) are sequences of one-character strings.  A float  *)
(* is a fixed-point decimal with Prec fractional digits, or NaN.           *)
(***************************************************************************)
EXTENDS Integers, Sequences, FiniteSets, TLC

(***************************************************************************)
(* Bounds of the model.                                                    *)
(***************************************************************************)
\* The longest table that is loaded.
MaxRows == 4
\* Fractional decimal digits kept by a float.
Prec == 2
\* The most entries of a mapping handed to write_results on its own.
MaxKeys == 2

(***************************************************************************)
(* Sequences and characters.                                               *)
(***************************************************************************)
Range(s) == {s[i] : i \in 1..Len(s)}

RECURSIVE Pow10(_)
Pow10(k) == IF k = 0 THEN 1 ELSE 10 * Pow10(k - 1)

Scale == Pow10(Prec)

RECURSIVE SumSeq(_)
SumSeq(s) == IF s = <<>> THEN 0 ELSE Head(s) + SumSeq(Tail(s))

RECURSIVE Flatten(_)
Flatten(ss) == IF ss = <<>> THEN <<>> ELSE Head(ss) \o Flatten(Tail(ss))

UpperChars == <<"A", "B", "C", "D", "E", "F", "G", "H", "I", "J", "K", "L", "M", "N", "O", "P", "Q", "R", "S", "T", "U", "V", "W", "X", "Y", "Z">>
LowerChars == <<"a", "b", "c", "d", "e", "f", "g", "h", "i", "j", "k", "l", "m", "n", "o", "p", "q", "r", "s", "t", "u", "v", "w", "x", "y", "z">>
DigitChars == <<"0", "1", "2", "3", "4", "5", "6", "7", "8", "9">>

IsAlpha(c) == c \in Range(UpperChars) \cup Range(LowerChars)
IndexIn(c, s) == CHOOSE i \in 1..Len(s) : s[i] = c
LowerChar(c) == IF c \in Range(UpperChars) THEN LowerChars[IndexIn(c, UpperChars)] ELSE c
UpperChar(c) == IF c \in Range(LowerChars) THEN UpperChars[IndexIn(c, LowerChars)] ELSE c

\* str.lower()
StrLower(s) == [i \in 1..Len(s) |-> LowerChar(s[i])]
\* str.capitalize(): the first character upper-cased, the rest lower-cased
StrCapitalize(s) == [i \in 1..Len(s) |-> IF i = 1 THEN UpperChar(s[i]) ELSE LowerChar(s[i])]
\* str.title(): every letter that follows a non-letter upper-cased, the rest lower-cased
StrTitle(s) ==
  [i \in 1..Len(s) |->
     IF i = 1 \/ ~IsAlpha(s[i - 1]) THEN UpperChar(s[i]) ELSE LowerChar(s[i])]
\* str.replace(a, b) for one-character a and b
StrReplaceChar(s, a, b) == [i \in 1..Len(s) |-> IF s[i] = a THEN b ELSE s[i]]
\* sub in s
StrContains(sub, s) ==
  \E i \in 0..(Len(s) - Len(sub)) : SubSeq(s, i + 1, i + Len(sub)) = sub

\* s.split(sep) for a one-character sep: the texts between the separators
StrSplit(s, sep) ==
  LET at == SelectSeq([i \in 1..Len(s) |-> i], LAMBDA i : s[i] = sep)
      cut == <<0>> \o at \o <<Len(s) + 1>>
  IN  [k \in 1..(Len(cut) - 1) |-> SubSeq(s, cut[k] + 1, cut[k + 1] - 1)]

(***************************************************************************)
(* Floats: NaN, or the fixed-point decimal v / Scale.                      *)
(***************************************************************************)
NaN == [nan |-> TRUE, v |-> 0]
Num(x) == [nan |-> FALSE, v |-> x]
\* the float of the integer n
FloatOfInt(n) == Num(n * Scale)

Abs(x) == IF x < 0 THEN -x ELSE x

\* the nearest fixed-point decimal to p / q, for p >= 0 and q > 0
RoundDiv(p, q) == (2 * p * Scale + q) \div (2 * q)

\* the largest k with k * k <= x, for x <= Scale * Scale
ISqrt(x) == CHOOSE k \in 0..Scale : k * k <= x /\ (k + 1) * (k + 1) > x

RECURSIVE InsertSorted(_, _)
InsertSorted(x, s) ==
  IF s = <<>> THEN <<x>>
  ELSE IF x <= Head(s) THEN <<x>> \o s
       ELSE <<Head(s)>> \o InsertSorted(x, Tail(s))

RECURSIVE SortInts(_)
SortInts(s) == IF s = <<>> THEN <<>> ELSE InsertSorted(Head(s), SortInts(Tail(s)))

MeanEmptyZero(xs) == IF xs = <<>> THEN Num(0) ELSE Num(RoundDiv(SumSeq(xs), Len(xs)))

\* Series.mean(): NaN for an empty series
SeriesMean(xs) == IF xs = <<>> THEN NaN ELSE Num(RoundDiv(SumSeq(xs), Len(xs)))

MedianUpperMiddle(xs) ==
  IF xs = <<>> THEN NaN ELSE Num(SortInts(xs)[(Len(xs) \div 2) + 1] * Scale)

\* Series.median(): NaN for an empty series, the middle value of the sorted
\* series, or the mean of the two middle values
SeriesMedian(xs) ==
  IF xs = <<>> THEN NaN
  ELSE LET s == SortInts(xs)
           n == Len(xs)
       IN  IF n % 2 = 1 THEN Num(s[(n + 1) \div 2] * Scale)
           ELSE Num(((s[n \div 2] + s[(n \div 2) + 1]) * Scale) \div 2)

\* scipy.stats.pearsonr(xs, ys)[0] for Len(xs) = Len(ys) > 2: the covariance
\* over the product of the standard deviations, NaN for a constant input
PearsonR(xs, ys) ==
  LET n   == Len(xs)
      sx  == SumSeq(xs)
      sy  == SumSeq(ys)
      sxy == SumSeq([i \in 1..n |-> xs[i] * ys[i]])
      sxx == SumSeq([i \in 1..n |-> xs[i] * xs[i]])
      syy == SumSeq([i \in 1..n |-> ys[i] * ys[i]])
      cov == n * sxy - sx * sy
      vx  == n * sxx - sx * sx
      vy  == n * syy - sy * sy
  IN  IF vx = 0 \/ vy = 0 THEN NaN
      ELSE LET r2 == (cov * cov * Scale) \div (vx * vy)
               r  == ISqrt(r2 * Scale)
           IN  Num(IF cov < 0 THEN -r ELSE r)

(***************************************************************************)
(* Mappings (dict): a sequence of entries in insertion order, keys unique. *)
(***************************************************************************)
Entry(key, value) == [k |-> key, v |-> value]
Keys(d) == [i \in 1..Len(d) |-> d[i].k]
HasKey(d, key) == \E i \in 1..Len(d) : d[i].k = key
Get(d, key) == d[CHOOSE i \in 1..Len(d) : d[i].k = key].v

\* d[key] = value: a new key is appended, an old key keeps its place
DictSet(d, key, value) ==
  IF HasKey(d, key)
  THEN [i \in 1..Len(d) |-> IF d[i].k = key THEN Entry(key, value) ELSE d[i]]
  ELSE Append(d, Entry(key, value))

RECURSIVE DictUpdate(_, _)
\* d.update(e), which is also {**d, **e}
DictUpdate(d, e) ==
  IF e = <<>> THEN d ELSE DictUpdate(DictSet(d, Head(e).k, Head(e).v), Tail(e))

(***************************************************************************)
(* The survey table.  A row is a function from the columns present to      *)
(* their values; a cell read as missing is NA.                             *)
(***************************************************************************)
Columns ==
  <<"Participant ID", "Item Type", "Emotional", "Pos / Neg", "Age Question Type",
    "Age Answer", "Page Ref", "Timestamp", "Text">>

\* pandas reads an empty field or the text NaN as a missing value
NA == "NaN"

FullRow(p, it, e, pn, aqt, age, pr, ts, tx) ==
  [c \in Range(Columns) |->
     CASE c = "Participant ID" -> p
       [] c = "Item Type" -> it
       [] c = "Emotional" -> e
       [] c = "Pos / Neg" -> pn
       [] c = "Age Question Type" -> aqt
       [] c = "Age Answer" -> age
       [] c = "Page Ref" -> pr
       [] c = "Timestamp" -> ts
       [] c = "Text" -> tx]

\* the rows analyze_data.py is run on
AnalysisRows ==
  { FullRow("P1", "Stimulus",   2, 1, "suitability",        6,  "A", "T1", "text"),
    FullRow("P1", "Stimulus",   4, 2, "age_recommendation", 12, "B", "T1", "text"),
    FullRow("P2", "Distraktor", 1, 2, "age_recommendation", 6,  "B", "T2", NA),
    FullRow("P1", "Distraktor", 1, 1, "suitability",        12, "C", "T1", "text"),
    FullRow("P2", "Other",      2, 2, "age_recommendation", 6,  "C", "T2", "text") }

\* the rows find_data_issues.py is run on: the first two differ in one column,
\* the third has no Text, the last four hold a zero each
AuditRows ==
  { FullRow("P1", "Stimulus",   1, 1, "suitability",        6,  "A", "T1", "text"),
    FullRow("P1", "Stimulus",   1, 1, "suitability",        6,  "A", "T2", "text"),
    FullRow("P1", "Stimulus",   0, 1, "suitability",        6,  "A", "T1", NA),
    FullRow("P1", "Distraktor", 0, 2, "age_recommendation", 12, "B", "T1", "text"),
    FullRow("P2", "Stimulus",   2, 2, "suitability",        0,  "C", "T2", "text"),
    FullRow("P2", "Distraktor", 3, 0, "age_recommendation", 6,  "A", "T2", "text") }

\* the texts of the tables in the order of Python's string comparison
Collation ==
  <<"A", "B", "C", "Distraktor", "NaN", "Other", "P1", "P2", "Stimulus", "T1", "T2",
    "age_recommendation", "suitability", "text">>

\* the tables of at most MaxRows rows drawn from rows
Tables(rows) == UNION {[1..n -> rows] : n \in 0..MaxRows}

\* the table without the columns in absent
DropColumns(table, absent) ==
  [i \in 1..Len(table) |-> [c \in Range(Columns) \ absent |-> table[i][c]]]
ColumnsWithout(absent) == SelectSeq(Columns, LAMBDA c : c \notin absent)

\* df[c] as a sequence; the column must be present
Col(table, c) == [i \in 1..Len(table) |-> table[i][c]]
\* df[df[c] == value]
WhereEq(table, c, value) == SelectSeq(table, LAMBDA r : r[c] = value)

(***************************************************************************)
(* Metric names.                                                           *)
(***************************************************************************)
\* the characters of the Item Type literals
Chars(s) ==
  CASE s = "Stimulus" -> <<"S", "t", "i", "m", "u", "l", "u", "s">>
    [] s = "Distraktor" -> <<"D", "i", "s", "t", "r", "a", "k", "t", "o", "r">>

\* compute_statistics: the Item Type values of its loop
StatItemTypes == <<"Stimulus", "Distraktor">>

\* the name suffixes of the eight records of one Item Type, in the order written
StatSuffixes ==
  << <<"_", "e", "m", "o", "t", "i", "o", "n", "a", "l", "_", "m", "e", "a", "n">>, <<"_", "e", "m", "o", "t", "i", "o", "n", "a", "l", "_", "m", "e", "d", "i", "a", "n">>,
     <<"_", "p", "o", "s", "_", "n", "e", "g", "_", "m", "e", "a", "n">>, <<"_", "p", "o", "s", "_", "n", "e", "g", "_", "m", "e", "d", "i", "a", "n">>,
     <<"_", "s", "u", "i", "t", "a", "b", "i", "l", "i", "t", "y", "_", "a", "g", "e", "_", "m", "e", "a", "n">>, <<"_", "s", "u", "i", "t", "a", "b", "i", "l", "i", "t", "y", "_", "a", "g", "e", "_", "m", "e", "d", "i", "a", "n">>,
     <<"_", "r", "e", "c", "o", "m", "m", "e", "n", "d", "e", "d", "_", "a", "g", "e", "_", "m", "e", "a", "n">>, <<"_", "r", "e", "c", "o", "m", "m", "e", "n", "d", "e", "d", "_", "a", "g", "e", "_", "m", "e", "d", "i", "a", "n">> >>

N_emotional_vs_pos_neg == <<"e", "m", "o", "t", "i", "o", "n", "a", "l", "_", "v", "s", "_", "p", "o", "s", "_", "n", "e", "g">>
N_emotional_vs_age_suitability == <<"e", "m", "o", "t", "i", "o", "n", "a", "l", "_", "v", "s", "_", "a", "g", "e", "_", "s", "u", "i", "t", "a", "b", "i", "l", "i", "t", "y">>
N_pos_neg_vs_age_suitability == <<"p", "o", "s", "_", "n", "e", "g", "_", "v", "s", "_", "a", "g", "e", "_", "s", "u", "i", "t", "a", "b", "i", "l", "i", "t", "y">>
N_emotional_vs_age_recommended == <<"e", "m", "o", "t", "i", "o", "n", "a", "l", "_", "v", "s", "_", "a", "g", "e", "_", "r", "e", "c", "o", "m", "m", "e", "n", "d", "e", "d">>
N_pos_neg_vs_age_recommended == <<"p", "o", "s", "_", "n", "e", "g", "_", "v", "s", "_", "a", "g", "e", "_", "r", "e", "c", "o", "m", "m", "e", "n", "d", "e", "d">>

(***************************************************************************)
(* analyze_data.py: compute_statistics                                     *)
(***************************************************************************)
\* the columns compute_statistics reads: a KeyError when one is absent
StatisticsColumns ==
  {"Item Type", "Emotional", "Pos / Neg", "Age Question Type", "Age Answer"}

\* subset = df[df['Item Type'] == item_type]
ItemSubset(table, item_type) == WhereEq(table, "Item Type", item_type)

\* subset[subset['Age Question Type'] == q]['Age Answer']
AgeAnswers(subset, q) == Col(WhereEq(subset, "Age Question Type", q), "Age Answer")

\* the eight values of one Item Type, in the order written
ItemStatistics(table, item_type) ==
  LET subset == ItemSubset(table, item_type)
      suitability == AgeAnswers(subset, "suitability")
      recommended == AgeAnswers(subset, "age_recommendation")
  IN  << SeriesMean(Col(subset, "Emotional")), SeriesMedian(Col(subset, "Emotional")),
         SeriesMean(Col(subset, "Pos / Neg")), SeriesMedian(Col(subset, "Pos / Neg")),
         SeriesMean(suitability), SeriesMedian(suitability),
         SeriesMean(recommended), SeriesMedian(recommended) >>

RECURSIVE StatisticsLoop(_, _, _)
StatisticsLoop(table, types, results) ==
  IF types = <<>> THEN results
  ELSE LET prefix == StrLower(Chars(Head(types)))
           values == ItemStatistics(table, Head(types))
           items  == [j \in 1..Len(StatSuffixes) |->
                        Entry(prefix \o StatSuffixes[j], values[j])]
       IN  StatisticsLoop(table, Tail(types), DictUpdate(results, items))

compute_statistics(table) == StatisticsLoop(table, StatItemTypes, <<>>)

(***************************************************************************)
(* analyze_data.py: compute_correlations                                   *)
(***************************************************************************)
EnoughRowsFromTwo(n) == n >= 2

\* len(...) > 2
EnoughRows(n) == n > 2

\* the two age correlations of one Age Question Type
AgeCorrelations(table, q, name_emotional, name_pos_neg) ==
  LET data == WhereEq(table, "Age Question Type", q)
  IN  IF EnoughRows(Len(data))
      THEN << Entry(name_emotional, PearsonR(Col(data, "Emotional"), Col(data, "Age Answer"))),
              Entry(name_pos_neg, PearsonR(Col(data, "Pos / Neg"), Col(data, "Age Answer"))) >>
      ELSE <<>>

compute_correlations(table) ==
  LET all == IF EnoughRows(Len(table))
             THEN << Entry(N_emotional_vs_pos_neg,
                           PearsonR(Col(table, "Emotional"), Col(table, "Pos / Neg"))) >>
             ELSE <<>>
      suit == AgeCorrelations(table, "suitability",
                N_emotional_vs_age_suitability, N_pos_neg_vs_age_suitability)
      rec  == AgeCorrelations(table, "age_recommendation",
                N_emotional_vs_age_recommended, N_pos_neg_vs_age_recommended)
  IN  DictUpdate(DictUpdate(DictUpdate(<<>>, all), suit), rec)

\* the columns compute_correlations reads on a table: 'Age Question Type'
\* always, the others only where a correlation is computed
CorrelationsRaise(table, cols) ==
  \/ "Age Question Type" \notin cols
  \/ /\ EnoughRows(Len(table))
     /\ ~({"Emotional", "Pos / Neg"} \subseteq cols)
  \/ /\ \E q \in {"suitability", "age_recommendation"} :
          EnoughRows(Len(WhereEq(table, "Age Question Type", q)))
     /\ ~({"Emotional", "Pos / Neg", "Age Answer"} \subseteq cols)

(***************************************************************************)
(* The text of a float in results.csv, and its reading.                    *)
(***************************************************************************)
RECURSIVE IntDigits(_)
\* the decimal digits of n >= 0
IntDigits(n) ==
  IF n < 10 THEN <<DigitChars[n + 1]>>
  ELSE Append(IntDigits(n \div 10), DigitChars[(n % 10) + 1])

RECURSIVE StripZeros(_)
\* a fraction's digits without its trailing zeros, one digit at least
StripZeros(ds) ==
  IF Len(ds) > 1 /\ ds[Len(ds)] = "0" THEN StripZeros(SubSeq(ds, 1, Len(ds) - 1)) ELSE ds

\* the Prec digits of the fraction f / Scale
FracDigits(f) == [i \in 1..Prec |-> DigitChars[((f \div Pow10(Prec - i)) % 10) + 1]]

\* to_csv: a float as text, a missing value as the empty text
FormatFloat(x) ==
  IF x.nan THEN <<>>
  ELSE (IF x.v < 0 THEN <<"-">> ELSE <<>>)
       \o IntDigits(Abs(x.v) \div Scale) \o <<".">>
       \o StripZeros(FracDigits(Abs(x.v) % Scale))

IsDigits(t) == t # <<>> /\ \A i \in 1..Len(t) : t[i] \in Range(DigitChars)

RECURSIVE DigitsValue(_)
DigitsValue(t) ==
  IF t = <<>> THEN 0
  ELSE 10 * DigitsValue(SubSeq(t, 1, Len(t) - 1)) + (IndexIn(t[Len(t)], DigitChars) - 1)

Unsigned(t) == IF t # <<>> /\ t[1] = "-" THEN Tail(t) ELSE t

\* whether read_csv takes the text for a number
IsFloatText(t) ==
  LET parts == StrSplit(Unsigned(t), ".")
  IN  /\ Len(parts) \in {1, 2}
      /\ IsDigits(parts[1])
      /\ Len(parts) = 2 => (IsDigits(parts[2]) /\ Len(parts[2]) <= Prec)

\* read_csv: the float of a text, NaN for the empty text
ParseFloat(t) ==
  IF t = <<>> THEN NaN
  ELSE LET parts == StrSplit(Unsigned(t), ".")
           frac  == IF Len(parts) = 2 THEN parts[2] ELSE <<>>
           mag   == DigitsValue(parts[1]) * Scale
                    + DigitsValue(frac) * Pow10(Prec - Len(frac))
       IN  Num(IF t[1] = "-" THEN -mag ELSE mag)

(***************************************************************************)
(* analyze_data.py: write_results; app.py: load_results                    *)
(***************************************************************************)
H_Metric == <<"M", "e", "t", "r", "i", "c">>
H_Value == <<"V", "a", "l", "u", "e">>

\* a line of a comma separated file
CsvLine(fields) ==
  Flatten([i \in 1..Len(fields) |-> IF i = 1 THEN fields[i] ELSE <<",">> \o fields[i]])

MergeFirstWins(stats, corrs) ==
  DictUpdate(stats, SelectSeq(corrs, LAMBDA e : ~HasKey(stats, e.k)))

\* all_results = {**statistics, **correlations}
MergeResults(stats, corrs) == DictUpdate(stats, corrs)

\* results_df.to_csv(filepath, index=False): the header line, then one line
\* per entry
ResultsCsv(stats, corrs) ==
  LET all == MergeResults(stats, corrs)
  IN  <<CsvLine(<<H_Metric, H_Value>>)>>
      \o [i \in 1..Len(all) |-> CsvLine(<<all[i].k, FormatFloat(all[i].v)>>)]

RECURSIVE SplitLines(_)
\* the fields of every line
SplitLines(lines) ==
  IF lines = <<>> THEN <<>>
  ELSE <<StrSplit(Head(lines), ",")>> \o SplitLines(Tail(lines))

\* pd.read_csv(path): the header line names the columns; a column whose
\* every field is a number or empty is read as floats, an empty field as NaN
ReadCsv(lines) ==
  LET fields == SplitLines(lines)
      header == fields[1]
      n == Len(lines) - 1
      numeric == {k \in 1..Len(header) :
                    \A i \in 1..n : fields[i + 1][k] = <<>> \/ IsFloatText(fields[i + 1][k])}
  IN  [i \in 1..n |->
         [h \in Range(header) |->
            LET k == IndexIn(h, header)
            IN  IF k \in numeric THEN ParseFloat(fields[i + 1][k]) ELSE fields[i + 1][k]]]

(***************************************************************************)
(* app.py: main, the parsing of the metric names                           *)
(***************************************************************************)
W_correlation == <<"c", "o", "r", "r", "e", "l", "a", "t", "i", "o", "n">>
W_vs == <<"_", "v", "s", "_">>
W_emotional == <<"e", "m", "o", "t", "i", "o", "n", "a", "l">>
W_pos_neg == <<"p", "o", "s", "_", "n", "e", "g">>
W_suitability_age == <<"s", "u", "i", "t", "a", "b", "i", "l", "i", "t", "y", "_", "a", "g", "e">>
W_recommended_age == <<"r", "e", "c", "o", "m", "m", "e", "n", "d", "e", "d", "_", "a", "g", "e">>
W_mean == <<"m", "e", "a", "n">>

\* 'correlation' in metric or '_vs_' in metric
IsCorrelationName(metric) == StrContains(W_correlation, metric) \/ StrContains(W_vs, metric)

ColumnOfAgeFirst(metric) ==
  IF StrContains(<<"a", "g", "e">>, metric) THEN "Suitability Age"
  ELSE IF StrContains(W_emotional, metric) THEN "Emotional"
  ELSE IF StrContains(W_pos_neg, metric) THEN "Pos / Neg"
  ELSE "Recommended Age"

\* the if/elif chain over the field substrings; "" stands for no match
ColumnOf(metric) ==
  IF StrContains(W_emotional, metric) THEN "Emotional"
  ELSE IF StrContains(W_pos_neg, metric) THEN "Pos / Neg"
  ELSE IF StrContains(W_suitability_age, metric) THEN "Suitability Age"
  ELSE IF StrContains(W_recommended_age, metric) THEN "Recommended Age"
  ELSE ""

\* the record appended to stats_data for one row of results, <<>> when the
\* row is skipped
StatsRecord(row) ==
  LET metric == row[H_Metric]
  IN  IF IsCorrelationName(metric) \/ ColumnOf(metric) = "" THEN <<>>
      ELSE << [ItemType |-> StrCapitalize(StrSplit(metric, "_")[1]),
               Column |-> ColumnOf(metric),
               Statistic |-> IF StrContains(W_mean, metric) THEN "Mean" ELSE "Median",
               Value |-> row[H_Value]] >>

StatsData(res) == Flatten([i \in 1..Len(res) |-> StatsRecord(res[i])])

\* the record appended to corr_data for one row of results
CorrRecord(row) ==
  IF StrContains(W_vs, row[H_Metric])
  THEN << [Correlation |-> StrTitle(StrReplaceChar(row[H_Metric], "_", " ")),
           Value |-> row[H_Value]] >>
  ELSE <<>>

CorrData(res) == Flatten([i \in 1..Len(res) |-> CorrRecord(res[i])])

(***************************************************************************)
(* Output files.  A file is absent, holds what an earlier run left, or     *)
(* holds the writes of this run in order.                                  *)
(***************************************************************************)
Absent == [state |-> "absent", lines |-> <<>>]
Previous == [state |-> "previous", lines |-> <<>>]
Written(lines) == [state |-> "written", lines |-> lines]

\* one f.write of a report
Line(kind, label, n) == [kind |-> kind, label |-> label, n |-> n]

(***************************************************************************)
(* analyze_data.py: assess_data                                            *)
(***************************************************************************)
\* columns whose cells are numbers; the tables of the model have no missing
\* number
NumericColumns == {"Emotional", "Pos / Neg", "Age Answer"}

IsNull(c, value) == c \notin NumericColumns /\ value = NA

CountWhere(s, Test(_)) == Len(SelectSeq(s, Test))

RECURSIVE Distinct(_)
\* Series.unique(): the values in the order of their first appearance
Distinct(s) ==
  IF s = <<>> THEN <<>>
  ELSE LET init == Distinct(SubSeq(s, 1, Len(s) - 1))
       IN  IF s[Len(s)] \in Range(init) THEN init ELSE Append(init, s[Len(s)])

\* Series.nunique(): missing values are not counted
NUnique(c, s) == Cardinality({v \in Range(s) : ~IsNull(c, v)})

RECURSIVE InsertByCount(_, _)
InsertByCount(e, s) ==
  IF s = <<>> THEN <<e>>
  ELSE IF e.n > Head(s).n THEN <<e>> \o s
       ELSE <<Head(s)>> \o InsertByCount(e, Tail(s))

RECURSIVE SortByCount(_)
SortByCount(s) ==
  IF s = <<>> THEN <<>>
  ELSE InsertByCount(s[Len(s)], SortByCount(SubSeq(s, 1, Len(s) - 1)))

\* Series.value_counts(): the values present with their counts, the most
\* frequent first, missing values left out
ValueCounts(c, s) ==
  LET values == SelectSeq(Distinct(s), LAMBDA v : ~IsNull(c, v))
  IN  SortByCount([i \in 1..Len(values) |->
                     [value |-> values[i],
                      n |-> CountWhere(s, LAMBDA v : v = values[i])]])

\* a row equal to the row just before it
DuplicatedAdjacent(table) ==
  [i \in 1..Len(table) |-> i > 1 /\ table[i - 1] = table[i]]

\* df.duplicated(): a row equal to an earlier row
DuplicatedFirst(table) ==
  [i \in 1..Len(table) |-> \E j \in 1..(i - 1) : table[j] = table[i]]

\* df.duplicated(keep=False): a row equal to another row
DuplicatedAny(table) ==
  [i \in 1..Len(table) |-> \E j \in 1..Len(table) : j # i /\ table[j] = table[i]]

CountTrue(mask) == Cardinality({i \in 1..Len(mask) : mask[i]})

\* the missing values per column, in column order
MissingCounts(table, cols) ==
  [k \in 1..Len(cols) |->
     [col |-> cols[k],
      n |-> CountWhere(table, LAMBDA r : IsNull(cols[k], r[cols[k]]))]]

ZeroCount(table, c) == CountWhere(table, LAMBDA r : r[c] = 0)

\* the sections of the report in the order written: the columns a section
\* reads before its first write, and its writes
AssessmentSectionCount == 8

AssessmentNeeds(k) ==
  CASE k = 2 -> {"Participant ID"}
    [] k = 3 -> {"Item Type"}
    [] k = 4 -> {"Age Question Type"}
    [] k = 7 -> {"Emotional", "Pos / Neg", "Age Answer"}
    [] OTHER -> {}

AssessmentWrites(table, cols, k) ==
  LET missing == SelectSeq(MissingCounts(table, cols), LAMBDA m : m.n > 0)
      dups == CountTrue(DuplicatedFirst(table))
      counts(c) == LET vc == ValueCounts(c, Col(table, c))
                   IN  [i \in 1..Len(vc) |-> Line("count", vc[i].value, vc[i].n)]
      zeros == SelectSeq(
                 << Line("zero", "Emotional", ZeroCount(table, "Emotional")),
                    Line("zero", "Pos / Neg", ZeroCount(table, "Pos / Neg")),
                    Line("zero", "Age Answer", ZeroCount(table, "Age Answer")) >>,
                 LAMBDA l : l.n > 0)
  IN  CASE k = 1 -> << Line("title", "DATA QUALITY ASSESSMENT", 0),
                       Line("total_rows", "", Len(table)),
                       Line("total_columns", "", Len(cols)) >>
        [] k = 2 -> << Line("unique_participants", "",
                            NUnique("Participant ID", Col(table, "Participant ID"))) >>
        [] k = 3 -> <<Line("heading", "Item Type distribution", 0)>> \o counts("Item Type")
        [] k = 4 -> <<Line("heading", "Age Question Type distribution", 0)>>
                    \o counts("Age Question Type")
        [] k = 5 -> <<Line("heading", "Missing values per column", 0)>>
                    \o (IF missing = <<>> THEN <<Line("no_missing", "", 0)>>
                        ELSE [i \in 1..Len(missing) |->
                                Line("missing", missing[i].col, missing[i].n)])
        [] k = 6 -> <<Line("duplicate_rows", "", dups)>>
                    \o (IF dups > 0
                        THEN << Line("duplicate_warning", "", 0),
                                Line("rows_involved", "", CountTrue(DuplicatedAny(table))) >>
                        ELSE <<>>)
        [] k = 7 -> IF zeros = <<>> THEN <<>>
                    ELSE <<Line("heading", "Potential invalid responses (zero values)", 0)>>
                         \o zeros
        [] k = 8 -> << Line("summary", IF dups = 0 /\ missing = <<>>
                                       THEN "complete" ELSE "issues", 0) >>
                    \o (IF dups > 0 THEN <<Line("summary_duplicates", "", dups)>> ELSE <<>>)

RECURSIVE AssessmentFrom(_, _, _)
\* the writes of sections k.. up to the first section that raises
AssessmentFrom(table, cols, k) ==
  IF k > AssessmentSectionCount \/ ~(AssessmentNeeds(k) \subseteq Range(cols)) THEN <<>>
  ELSE AssessmentWrites(table, cols, k) \o AssessmentFrom(table, cols, k + 1)

AssessmentRaises(cols) ==
  \E k \in 1..AssessmentSectionCount : ~(AssessmentNeeds(k) \subseteq Range(cols))

\* what the with-block leaves in the file: open(filepath, 'w') empties it,
\* and the writes made before an error are flushed when the block is left
AssessmentFile(table, cols) == Written(AssessmentFrom(table, cols, 1))

(***************************************************************************)
(* find_data_issues.py: find_duplicates, find_zero_values,                 *)
(* check_participant_completeness                                          *)
(***************************************************************************)
RowNumberColumn == "CSV Row Number"

\* df_with_rows: df with the column 'CSV Row Number' = range(2, len(df) + 2)
WithRowNumbers(table) ==
  [i \in 1..Len(table) |->
     [c \in DOMAIN table[i] \cup {RowNumberColumn} |->
        IF c = RowNumberColumn THEN i + 1 ELSE table[i][c]]]

\* the cells of a row in the columns cols
Project(r, cols) == [c \in cols |-> r[c]]

\* boolean indexing: the rows of table whose mask is set
Masked(table, mask) ==
  LET at == SelectSeq([i \in 1..Len(table) |-> i], LAMBDA i : mask[i])
  IN  [k \in 1..Len(at) |-> table[at[k]]]

\* df_with_rows[df_with_rows.duplicated(subset=df.columns.tolist(), keep=False)]
find_duplicates(table) ==
  LET rows == WithRowNumbers(table)
      cols == IF table = <<>> THEN {} ELSE DOMAIN table[1]
      mask == [i \in 1..Len(rows) |->
                 \E j \in 1..Len(rows) :
                    j # i /\ Project(rows[j], cols) = Project(rows[i], cols)]
  IN  Masked(rows, mask)

\* (df['Emotional'] == 0) | (df['Pos / Neg'] == 0) | (df['Age Answer'] == 0)
ZeroMask(table) ==
  [i \in 1..Len(table) |->
     table[i]["Emotional"] = 0 \/ table[i]["Pos / Neg"] = 0 \/ table[i]["Age Answer"] = 0]

\* the rows with a zero, numbered after they have been selected
NumberedAfterSelection(table) == WithRowNumbers(Masked(table, ZeroMask(table)))

\* df_with_rows[zero_mask]
find_zero_values(table) == Masked(WithRowNumbers(table), ZeroMask(table))

\* sorted(...) of a set of texts
SortedTexts(set) == SelectSeq(Collation, LAMBDA s : s \in set)

UnsortedTexts(set) ==
  LET s == SortedTexts(set) IN [i \in 1..Len(s) |-> s[Len(s) + 1 - i]]

\* sorted(missing_questions)
SortedMissing(set) == SortedTexts(set)

RECURSIVE MissingLoop(_, _, _)
\* the loop over all_participants
MissingLoop(table, participants, missing) ==
  IF participants = <<>> THEN missing
  ELSE LET participant == Head(participants)
           answers == Range(Col(WhereEq(table, "Participant ID", participant), "Page Ref"))
           missing_questions == Range(Col(table, "Page Ref")) \ answers
       IN  MissingLoop(table, Tail(participants),
             IF missing_questions # {}
             THEN DictSet(missing, participant, SortedMissing(missing_questions))
             ELSE missing)

check_participant_completeness(table) ==
  LET all_questions == Range(Col(table, "Page Ref"))
      all_participants == Distinct(Col(table, "Participant ID"))
      missing == MissingLoop(table, all_participants, <<>>)
  IN  [all_questions |-> SortedTexts(all_questions),
       total_questions |-> Cardinality(all_questions),
       total_participants |-> Len(all_participants),
       missing_by_participant |-> missing,
       complete_participants |-> Len(all_participants) - Len(missing)]

(***************************************************************************)
(* find_data_issues.py: main, the report                                   *)
(***************************************************************************)
\* a write that is made, and a statement that raises instead
Wrote(line) == [ok |-> TRUE, line |-> line]
Raise(exception) == [ok |-> FALSE, line |-> Line("raise", exception, 0)]

\* f.write of a text cell: a KeyError when the column is absent
WriteCell(r, kind, c) ==
  IF c \in DOMAIN r THEN Wrote(Line(kind, r[c], 0)) ELSE Raise("KeyError")

\* f.write of row['Text'][:60]: a missing Text is a float, which has no
\* slice; the texts of the model are shorter than 60 characters
WriteTextPreview(r) ==
  IF "Text" \notin DOMAIN r THEN Raise("KeyError")
  ELSE IF IsNull("Text", r["Text"]) THEN Raise("TypeError")
  ELSE Wrote(Line("text", r["Text"], 0))

\* the statements of a section up to the first that raises
RECURSIVE Performed(_)
Performed(steps) ==
  IF steps = <<>> THEN <<>>
  ELSE IF Head(steps).ok THEN <<Head(steps)>> \o Performed(Tail(steps))
       ELSE <<Head(steps)>>

Raised(steps) == \E i \in 1..Len(steps) : ~steps[i].ok
RaisedException(steps) == steps[CHOOSE i \in 1..Len(steps) : ~steps[i].ok].line.label
WrittenLines(steps) ==
  LET done == SelectSeq(Performed(steps), LAMBDA s : s.ok)
  IN  [i \in 1..Len(done) |-> done[i].line]

TextLess(a, b) == IndexIn(a, Collation) < IndexIn(b, Collation)

\* the order of two group keys: that of their first differing column
KeyLess(a, b, cols) ==
  \E k \in 1..Len(cols) :
    /\ \A j \in 1..(k - 1) : a[cols[j]] = b[cols[j]]
    /\ a[cols[k]] # b[cols[k]]
    /\ IF cols[k] \in NumericColumns THEN a[cols[k]] < b[cols[k]]
       ELSE TextLess(a[cols[k]], b[cols[k]])

RECURSIVE InsertKey(_, _, _)
InsertKey(key, s, cols) ==
  IF s = <<>> THEN <<key>>
  ELSE IF KeyLess(key, Head(s), cols) THEN <<key>> \o s
       ELSE <<Head(s)>> \o InsertKey(key, Tail(s), cols)

RECURSIVE SortKeys(_, _)
SortKeys(s, cols) ==
  IF s = <<>> THEN <<>> ELSE InsertKey(Head(s), SortKeys(Tail(s), cols), cols)

\* duplicates.groupby(list(df.columns)): the rows with a missing value in a
\* key column are left out, the groups come in the order of their keys and
\* the rows of a group in their order in the table
GroupBy(rows, cols) ==
  LET kept == SelectSeq(rows, LAMBDA r : \A c \in Range(cols) : ~IsNull(c, r[c]))
      keys == SortKeys(Distinct([i \in 1..Len(kept) |-> Project(kept[i], Range(cols))]), cols)
  IN  [g \in 1..Len(keys) |->
         SelectSeq(kept, LAMBDA r : Project(r, Range(cols)) = keys[g])]

\* the groups that are written: len(group) > 1
DuplicateGroups(dups, cols) == SelectSeq(GroupBy(dups, cols), LAMBDA g : Len(g) > 1)

\* the writes of one member of a duplicate group
MemberSteps(r) ==
  << Wrote(Line("csv_row", "", r[RowNumberColumn])),
     WriteCell(r, "participant", "Participant ID"),
     WriteCell(r, "timestamp", "Timestamp"),
     WriteTextPreview(r) >>

\* the DUPLICATE ROWS section, from the opening of the file
DuplicateSteps(dups, cols) ==
  LET groups == DuplicateGroups(dups, cols)
  IN  << Wrote(Line("title", "DETAILED DATA ISSUES REPORT", 0)),
         Wrote(Line("heading", "DUPLICATE ROWS", 0)) >>
      \o (IF Len(dups) = 0 THEN <<Wrote(Line("no_duplicates", "", 0))>>
          ELSE <<Wrote(Line("found_duplicates", "", Len(dups)))>>
               \o Flatten([g \in 1..Len(groups) |->
                    <<Wrote(Line("group", "", g))>>
                    \o Flatten([m \in 1..Len(groups[g]) |-> MemberSteps(groups[g][m])])]))

\* the writes of one row with a zero value
ZeroRowSteps(r) ==
  << Wrote(Line("csv_row", "", r[RowNumberColumn])),
     WriteCell(r, "participant", "Participant ID"),
     WriteCell(r, "timestamp", "Timestamp"),
     WriteCell(r, "item_type", "Item Type"),
     Wrote(Line("values", "Emotional", r["Emotional"])),
     Wrote(Line("values", "Pos / Neg", r["Pos / Neg"])),
     Wrote(Line("values", "Age Answer", r["Age Answer"])),
     WriteTextPreview(r) >>

\* the ROWS WITH ZERO VALUES section, after find_zero_values has returned
ZeroSteps(zeros) ==
  IF Len(zeros) = 0 THEN <<Wrote(Line("no_zero_values", "", 0))>>
  ELSE <<Wrote(Line("found_zero_values", "", Len(zeros)))>>
       \o Flatten([i \in 1..Len(zeros) |-> ZeroRowSteps(zeros[i])])

\* the PARTICIPANT QUESTION COMPLETENESS section and the end of the report
CompletenessSteps(c) ==
  LET missing == c.missing_by_participant
  IN  << Wrote(Line("total_questions", "", c.total_questions)),
         Wrote(Line("total_participants", "", c.total_participants)),
         Wrote(Line("complete_participants", "", c.complete_participants)),
         Wrote(Line("missing_participants", "", Len(missing))) >>
      \o (IF missing # <<>>
          THEN Flatten([i \in 1..Len(missing) |->
                 << Wrote(Line("participant", missing[i].k, 0)),
                    Wrote(Line("missing_count", "", Len(missing[i].v))) >>
                 \o [q \in 1..Len(missing[i].v) |->
                       Wrote(Line("missing_question", missing[i].v[q], 0))]])
          ELSE <<Wrote(Line("all_complete", "", 0))>>)
      \o <<Wrote(Line("end_of_report", "END OF REPORT", 0))>>

(***************************************************************************)
(* State.                                                                  *)
(***************************************************************************)
VARIABLES
  df,               \* the loaded table
  columns,          \* df.columns
  pc,               \* where the running script stands
  error,            \* the exception that ended the script, "" for none
  statistics,       \* analyze_data.main: compute_statistics(df)
  correlations,     \* analyze_data.main: compute_correlations(df)
  results_csv,      \* the file data/output/results.csv
  assessment_txt,   \* the file data/output/assessment.txt
  data_issues_txt,  \* the file data/output/data_issues.txt
  results,          \* app.main: load_results()
  stats_data,       \* app.main: stats_data
  corr_data,        \* app.main: corr_data
  duplicates,       \* find_data_issues.main: find_duplicates(df)
  zero_rows,        \* find_data_issues.main: find_zero_values(df)
  completeness      \* find_data_issues.main: check_participant_completeness(df)

vars ==
  <<df, columns, pc, error, statistics, correlations, results_csv, assessment_txt,
    data_issues_txt, results, stats_data, corr_data, duplicates, zero_rows, completeness>>

analysisVars == <<statistics, correlations>>
fileVars == <<results_csv, assessment_txt, data_issues_txt>>
dashboardVars == <<results, stats_data, corr_data>>
auditVars == <<duplicates, zero_rows, completeness>>

\* nothing computed yet
Unset ==
  /\ error = ""
  /\ statistics = <<>>
  /\ correlations = <<>>
  /\ results = <<>>
  /\ stats_data = <<>>
  /\ corr_data = <<>>
  /\ duplicates = <<>>
  /\ zero_rows = <<>>
  /\ completeness = <<>>

\* the output directory before a run: empty, or holding an earlier run's files
OutputBefore ==
  \E before \in {Absent, Previous} :
    /\ results_csv = before
    /\ assessment_txt = before
    /\ data_issues_txt = before

\* the columns the input file may lack when analyze_data.py is run
AnalysisAbsent == {{}, {"Participant ID"}, {"Emotional"}}

(***************************************************************************)
(* analyze_data.py: main, after load_data has returned                     *)
(***************************************************************************)
Init ==
  /\ \E t \in Tables(AnalysisRows), absent \in AnalysisAbsent :
       /\ df = DropColumns(t, absent)
       /\ columns = ColumnsWithout(absent)
  /\ pc = "compute_statistics"
  /\ OutputBefore
  /\ Unset

\* statistics = compute_statistics(df)
ComputeStatistics ==
  /\ pc = "compute_statistics"
  /\ IF StatisticsColumns \subseteq Range(columns)
     THEN /\ statistics' = compute_statistics(df)
          /\ pc' = "compute_correlations"
          /\ error' = error
     ELSE /\ pc' = "error"
          /\ error' = "KeyError"
          /\ statistics' = statistics
  /\ UNCHANGED <<df, columns, correlations, fileVars, dashboardVars, auditVars>>

\* correlations = compute_correlations(df)
ComputeCorrelations ==
  /\ pc = "compute_correlations"
  /\ IF ~CorrelationsRaise(df, Range(columns))
     THEN /\ correlations' = compute_correlations(df)
          /\ pc' = "write_results"
          /\ error' = error
     ELSE /\ pc' = "error"
          /\ error' = "KeyError"
          /\ correlations' = correlations
  /\ UNCHANGED <<df, columns, statistics, fileVars, dashboardVars, auditVars>>

\* write_results(statistics, correlations, results_file)
WriteResults(to) ==
  /\ pc = "write_results"
  /\ results_csv' = Written(ResultsCsv(statistics, correlations))
  /\ pc' = to
  /\ UNCHANGED <<df, columns, error, analysisVars, assessment_txt, data_issues_txt,
                 dashboardVars, auditVars>>

\* assess_data(df, assessment_file)
AssessData ==
  /\ pc = "assess_data"
  /\ assessment_txt' = AssessmentFile(df, columns)
  /\ IF AssessmentRaises(columns)
     THEN pc' = "error" /\ error' = "KeyError"
     ELSE pc' = "done" /\ error' = error
  /\ UNCHANGED <<df, columns, analysisVars, results_csv, data_issues_txt,
                 dashboardVars, auditVars>>

(***************************************************************************)
(* app.py: the dashboard, run on the results.csv a complete run has left   *)
(***************************************************************************)
\* load_results()
LoadResults(from, to) ==
  /\ pc = from
  /\ results_csv.state = "written"
  /\ results' = ReadCsv(results_csv.lines)
  /\ pc' = to
  /\ UNCHANGED <<df, columns, error, analysisVars, fileVars, stats_data, corr_data,
                 auditVars>>

\* main: load_results() and the Computed Statistics tab
DashboardMain ==
  /\ pc = "done"
  /\ results_csv.state = "written"
  /\ LET loaded == ReadCsv(results_csv.lines)
     IN  /\ results' = loaded
         /\ stats_data' = StatsData(loaded)
         /\ corr_data' = CorrData(loaded)
  /\ pc' = "rendered"
  /\ UNCHANGED <<df, columns, error, analysisVars, fileVars, auditVars>>

Next ==
  \/ ComputeStatistics
  \/ ComputeCorrelations
  \/ WriteResults("assess_data")
  \/ AssessData
  \/ DashboardMain

Spec == Init /\ [][Next]_vars

(***************************************************************************)
(* write_results and load_results on their own, over mappings that need    *)
(* not come from the two engines.                                          *)
(***************************************************************************)
ResultKeys ==
  { <<"s", "t", "i", "m", "u", "l", "u", "s", "_", "e", "m", "o", "t", "i", "o", "n", "a", "l", "_", "m", "e", "a", "n">>, <<"d", "i", "s", "t", "r", "a", "k", "t", "o", "r", "_", "p", "o", "s", "_", "n", "e", "g", "_", "m", "e", "d", "i", "a", "n">>, <<"e", "m", "o", "t", "i", "o", "n", "a", "l", "_", "v", "s", "_", "p", "o", "s", "_", "n", "e", "g">> }

\* NaN, 3.0 and -0.25
ResultValues == {NaN, FloatOfInt(3), Num(-(Scale \div 4))}

\* the mappings of lo..hi entries
Dicts(lo, hi) ==
  { d \in UNION {[1..n -> [k : ResultKeys, v : ResultValues]] : n \in lo..hi} :
      \A i, j \in 1..Len(d) : i # j => d[i].k # d[j].k }

InitResults ==
  /\ df = <<>>
  /\ columns = Columns
  /\ pc = "write_results"
  /\ results_csv = Absent
  /\ assessment_txt = Absent
  /\ data_issues_txt = Absent
  /\ \E s \in Dicts(1, MaxKeys), c \in Dicts(0, MaxKeys) :
       /\ statistics = s
       /\ correlations = c
  /\ error = ""
  /\ results = <<>>
  /\ stats_data = <<>>
  /\ corr_data = <<>>
  /\ duplicates = <<>>
  /\ zero_rows = <<>>
  /\ completeness = <<>>

NextResults ==
  \/ WriteResults("written")
  \/ LoadResults("written", "loaded")

SpecResults == InitResults /\ [][NextResults]_vars

(***************************************************************************)
(* find_data_issues.py: main, after load_data has returned                 *)
(***************************************************************************)
\* the columns the input file may lack when find_data_issues.py is run
AuditAbsent == {{}, {"Page Ref"}}

InitAudit ==
  /\ \E t \in Tables(AuditRows), absent \in AuditAbsent :
       /\ df = DropColumns(t, absent)
       /\ columns = ColumnsWithout(absent)
  /\ pc = "duplicates"
  /\ OutputBefore
  /\ Unset

\* a section of the report: its writes are added to the file, and an
\* exception ends the script
Section(steps, to) ==
  /\ data_issues_txt' =
       Written((IF data_issues_txt.state = "written" THEN data_issues_txt.lines ELSE <<>>)
               \o WrittenLines(steps))
  /\ IF Raised(steps)
     THEN pc' = "error" /\ error' = RaisedException(steps)
     ELSE pc' = to /\ error' = error

\* open(output_file, 'w') and the DUPLICATE ROWS section
AuditDuplicates ==
  /\ pc = "duplicates"
  /\ data_issues_txt.state # "written"
  /\ LET dups == find_duplicates(df)
     IN  /\ duplicates' = dups
         /\ Section(DuplicateSteps(dups, columns), "zero_values")
  /\ UNCHANGED <<df, columns, analysisVars, results_csv, assessment_txt, dashboardVars,
                 zero_rows, completeness>>

\* the ROWS WITH ZERO VALUES section
AuditZeroValues ==
  /\ pc = "zero_values"
  /\ IF {"Emotional", "Pos / Neg", "Age Answer"} \subseteq Range(columns)
     THEN LET zeros == find_zero_values(df)
          IN  /\ zero_rows' = zeros
              /\ Section(<<Wrote(Line("heading", "ROWS WITH ZERO VALUES", 0))>>
                         \o ZeroSteps(zeros), "completeness")
     ELSE /\ zero_rows' = zero_rows
          /\ Section(<<Wrote(Line("heading", "ROWS WITH ZERO VALUES", 0)),
                       Raise("KeyError")>>, "completeness")
  /\ UNCHANGED <<df, columns, analysisVars, results_csv, assessment_txt, dashboardVars,
                 duplicates, completeness>>

\* the PARTICIPANT QUESTION COMPLETENESS section, to the end of the script
AuditCompleteness ==
  /\ pc = "completeness"
  /\ IF {"Page Ref", "Participant ID"} \subseteq Range(columns)
     THEN LET c == check_participant_completeness(df)
          IN  /\ completeness' = c
              /\ Section(<<Wrote(Line("heading", "PARTICIPANT QUESTION COMPLETENESS", 0))>>
                         \o CompletenessSteps(c), "done")
     ELSE /\ completeness' = completeness
          /\ Section(<<Wrote(Line("heading", "PARTICIPANT QUESTION COMPLETENESS", 0)),
                       Raise("KeyError")>>, "done")
  /\ UNCHANGED <<df, columns, analysisVars, results_csv, assessment_txt, dashboardVars,
                 duplicates, zero_rows>>

NextAudit ==
  \/ AuditDuplicates
  \/ AuditZeroValues
  \/ AuditCompleteness

SpecAudit == InitAudit /\ [][NextAudit]_vars

(***************************************************************************)
(* Both reports of one input file: assess_data of analyze_data.py, then    *)
(* find_data_issues.py up to the end of its DUPLICATE ROWS section.        *)
(***************************************************************************)
\* the rows both scripts are run on: the first two differ in one column, the
\* third has no Text
ReportRows ==
  { FullRow("P1", "Stimulus", 1, 1, "suitability", 6, "A", "T1", "text"),
    FullRow("P1", "Stimulus", 1, 1, "suitability", 6, "A", "T2", "text"),
    FullRow("P1", "Stimulus", 0, 1, "suitability", 6, "A", "T1", NA) }

\* the columns the input file may lack: none of those assess_data reads
ReportAbsent == {{}, {"Text"}}

\* analyze_data.py has reached assess_data
InitReports ==
  /\ \E t \in Tables(ReportRows), absent \in ReportAbsent :
       /\ df = DropColumns(t, absent)
       /\ columns = ColumnsWithout(absent)
  /\ pc = "assess_data"
  /\ OutputBefore
  /\ Unset

\* find_data_issues.py is started on the same input file once
\* analyze_data.py has ended
StartAudit ==
  /\ pc \in {"done", "error"}
  /\ data_issues_txt.state # "written"
  /\ pc' = "duplicates"
  /\ error' = ""
  /\ UNCHANGED <<df, columns, analysisVars, fileVars, dashboardVars, auditVars>>

NextReports ==
  \/ AssessData
  \/ StartAudit
  \/ AuditDuplicates

SpecReports == InitReports /\ [][NextReports]_vars

(***************************************************************************)
(* What the claims speak of.                                               *)
(***************************************************************************)
\* main of analyze_data.py has got past compute_statistics
StatisticsDone == statistics # <<>>

\* main of analyze_data.py has got past compute_correlations
CorrelationsDone ==
  \/ pc \in {"write_results", "assess_data", "done", "rendered"}
  \/ pc = "error" /\ results_csv.state = "written"

\* the script has ended, normally or by an error
RunEnded == pc \in {"done", "error", "rendered"}

\* the rows of df an index set selects, as the sequence of their cells in c
Cells(rowset, c) ==
  LET at == SelectSeq([i \in 1..Len(df) |-> i], LAMBDA i : i \in rowset)
  IN  [k \in 1..Len(at) |-> df[at[k]][c]]

\* the sixteen records of the two Item Types compute_statistics groups by:
\* the name, the rows it is computed over and what the dashboard shows
ExpectedStatistics ==
  <<
    [name |-> <<"s", "t", "i", "m", "u", "l", "u", "s", "_", "e", "m", "o", "t", "i", "o", "n", "a", "l", "_", "m", "e", "a", "n">>, item |-> "Stimulus", item_chars |-> <<"S", "t", "i", "m", "u", "l", "u", "s">>,
     col |-> "Emotional", q |-> "", stat |-> "mean", column |-> "Emotional", statistic |-> "Mean"],
    [name |-> <<"s", "t", "i", "m", "u", "l", "u", "s", "_", "e", "m", "o", "t", "i", "o", "n", "a", "l", "_", "m", "e", "d", "i", "a", "n">>, item |-> "Stimulus", item_chars |-> <<"S", "t", "i", "m", "u", "l", "u", "s">>,
     col |-> "Emotional", q |-> "", stat |-> "median", column |-> "Emotional", statistic |-> "Median"],
    [name |-> <<"s", "t", "i", "m", "u", "l", "u", "s", "_", "p", "o", "s", "_", "n", "e", "g", "_", "m", "e", "a", "n">>, item |-> "Stimulus", item_chars |-> <<"S", "t", "i", "m", "u", "l", "u", "s">>,
     col |-> "Pos / Neg", q |-> "", stat |-> "mean", column |-> "Pos / Neg", statistic |-> "Mean"],
    [name |-> <<"s", "t", "i", "m", "u", "l", "u", "s", "_", "p", "o", "s", "_", "n", "e", "g", "_", "m", "e", "d", "i", "a", "n">>, item |-> "Stimulus", item_chars |-> <<"S", "t", "i", "m", "u", "l", "u", "s">>,
     col |-> "Pos / Neg", q |-> "", stat |-> "median", column |-> "Pos / Neg", statistic |-> "Median"],
    [name |-> <<"s", "t", "i", "m", "u", "l", "u", "s", "_", "s", "u", "i", "t", "a", "b", "i", "l", "i", "t", "y", "_", "a", "g", "e", "_", "m", "e", "a", "n">>, item |-> "Stimulus", item_chars |-> <<"S", "t", "i", "m", "u", "l", "u", "s">>,
     col |-> "Age Answer", q |-> "suitability", stat |-> "mean", column |-> "Suitability Age", statistic |-> "Mean"],
    [name |-> <<"s", "t", "i", "m", "u", "l", "u", "s", "_", "s", "u", "i", "t", "a", "b", "i", "l", "i", "t", "y", "_", "a", "g", "e", "_", "m", "e", "d", "i", "a", "n">>, item |-> "Stimulus", item_chars |-> <<"S", "t", "i", "m", "u", "l", "u", "s">>,
     col |-> "Age Answer", q |-> "suitability", stat |-> "median", column |-> "Suitability Age", statistic |-> "Median"],
    [name |-> <<"s", "t", "i", "m", "u", "l", "u", "s", "_", "r", "e", "c", "o", "m", "m", "e", "n", "d", "e", "d", "_", "a", "g", "e", "_", "m", "e", "a", "n">>, item |-> "Stimulus", item_chars |-> <<"S", "t", "i", "m", "u", "l", "u", "s">>,
     col |-> "Age Answer", q |-> "age_recommendation", stat |-> "mean", column |-> "Recommended Age", statistic |-> "Mean"],
    [name |-> <<"s", "t", "i", "m", "u", "l", "u", "s", "_", "r", "e", "c", "o", "m", "m", "e", "n", "d", "e", "d", "_", "a", "g", "e", "_", "m", "e", "d", "i", "a", "n">>, item |-> "Stimulus", item_chars |-> <<"S", "t", "i", "m", "u", "l", "u", "s">>,
     col |-> "Age Answer", q |-> "age_recommendation", stat |-> "median", column |-> "Recommended Age", statistic |-> "Median"],
    [name |-> <<"d", "i", "s", "t", "r", "a", "k", "t", "o", "r", "_", "e", "m", "o", "t", "i", "o", "n", "a", "l", "_", "m", "e", "a", "n">>, item |-> "Distraktor", item_chars |-> <<"D", "i", "s", "t", "r", "a", "k", "t", "o", "r">>,
     col |-> "Emotional", q |-> "", stat |-> "mean", column |-> "Emotional", statistic |-> "Mean"],
    [name |-> <<"d", "i", "s", "t", "r", "a", "k", "t", "o", "r", "_", "e", "m", "o", "t", "i", "o", "n", "a", "l", "_", "m", "e", "d", "i", "a", "n">>, item |-> "Distraktor", item_chars |-> <<"D", "i", "s", "t", "r", "a", "k", "t", "o", "r">>,
     col |-> "Emotional", q |-> "", stat |-> "median", column |-> "Emotional", statistic |-> "Median"],
    [name |-> <<"d", "i", "s", "t", "r", "a", "k", "t", "o", "r", "_", "p", "o", "s", "_", "n", "e", "g", "_", "m", "e", "a", "n">>, item |-> "Distraktor", item_chars |-> <<"D", "i", "s", "t", "r", "a", "k", "t", "o", "r">>,
     col |-> "Pos / Neg", q |-> "", stat |-> "mean", column |-> "Pos / Neg", statistic |-> "Mean"],
    [name |-> <<"d", "i", "s", "t", "r", "a", "k", "t", "o", "r", "_", "p", "o", "s", "_", "n", "e", "g", "_", "m", "e", "d", "i", "a", "n">>, item |-> "Distraktor", item_chars |-> <<"D", "i", "s", "t", "r", "a", "k", "t", "o", "r">>,
     col |-> "Pos / Neg", q |-> "", stat |-> "median", column |-> "Pos / Neg", statistic |-> "Median"],
    [name |-> <<"d", "i", "s", "t", "r", "a", "k", "t", "o", "r", "_", "s", "u", "i", "t", "a", "b", "i", "l", "i", "t", "y", "_", "a", "g", "e", "_", "m", "e", "a", "n">>, item |-> "Distraktor", item_chars |-> <<"D", "i", "s", "t", "r", "a", "k", "t", "o", "r">>,
     col |-> "Age Answer", q |-> "suitability", stat |-> "mean", column |-> "Suitability Age", statistic |-> "Mean"],
    [name |-> <<"d", "i", "s", "t", "r", "a", "k", "t", "o", "r", "_", "s", "u", "i", "t", "a", "b", "i", "l", "i", "t", "y", "_", "a", "g", "e", "_", "m", "e", "d", "i", "a", "n">>, item |-> "Distraktor", item_chars |-> <<"D", "i", "s", "t", "r", "a", "k", "t", "o", "r">>,
     col |-> "Age Answer", q |-> "suitability", stat |-> "median", column |-> "Suitability Age", statistic |-> "Median"],
    [name |-> <<"d", "i", "s", "t", "r", "a", "k", "t", "o", "r", "_", "r", "e", "c", "o", "m", "m", "e", "n", "d", "e", "d", "_", "a", "g", "e", "_", "m", "e", "a", "n">>, item |-> "Distraktor", item_chars |-> <<"D", "i", "s", "t", "r", "a", "k", "t", "o", "r">>,
     col |-> "Age Answer", q |-> "age_recommendation", stat |-> "mean", column |-> "Recommended Age", statistic |-> "Mean"],
    [name |-> <<"d", "i", "s", "t", "r", "a", "k", "t", "o", "r", "_", "r", "e", "c", "o", "m", "m", "e", "n", "d", "e", "d", "_", "a", "g", "e", "_", "m", "e", "d", "i", "a", "n">>, item |-> "Distraktor", item_chars |-> <<"D", "i", "s", "t", "r", "a", "k", "t", "o", "r">>,
     col |-> "Age Answer", q |-> "age_recommendation", stat |-> "median", column |-> "Recommended Age", statistic |-> "Median"]
  >>

\* the rows of df a record of ExpectedStatistics is computed over
SelectedRows(e) ==
  {i \in 1..Len(df) :
     /\ df[i]["Item Type"] = e.item
     /\ e.q # "" => df[i]["Age Question Type"] = e.q}

\* m is the mean of the integers xs to the precision of a float
IsMeanOf(m, xs) ==
  /\ ~m.nan
  /\ 2 * Abs(m.v * Len(xs) - SumSeq(xs) * Scale) <= Len(xs)

\* a is a k-th smallest of the integers xs
IsKthSmallest(a, k, xs) ==
  /\ a \in Range(xs)
  /\ Cardinality({i \in 1..Len(xs) : xs[i] < a}) < k
  /\ Cardinality({i \in 1..Len(xs) : xs[i] <= a}) >= k

\* m is the median of the integers xs: the middle value, or the mean of the
\* two middle values
IsMedianOf(m, xs) ==
  /\ ~m.nan
  /\ \E a, b \in Range(xs) :
       /\ IsKthSmallest(a, (Len(xs) + 1) \div 2, xs)
       /\ IsKthSmallest(b, (Len(xs) \div 2) + 1, xs)
       /\ 2 * m.v = (a + b) * Scale

(***************************************************************************)
(* C1                                                                      *)
(***************************************************************************)
\* the name of the first record of an Item Type group: the lower-cased Item
\* Type, then _emotional_mean
FirstRecordName(item_type) ==
  CASE item_type = "Stimulus" -> <<"s", "t", "i", "m", "u", "l", "u", "s", "_", "e", "m", "o", "t", "i", "o", "n", "a", "l", "_", "m", "e", "a", "n">>
    [] item_type = "Distraktor" -> <<"d", "i", "s", "t", "r", "a", "k", "t", "o", "r", "_", "e", "m", "o", "t", "i", "o", "n", "a", "l", "_", "m", "e", "a", "n">>
    [] item_type = "Other" -> <<"o", "t", "h", "e", "r", "_", "e", "m", "o", "t", "i", "o", "n", "a", "l", "_", "m", "e", "a", "n">>

\* the Item Type values of the table for which statistics holds metric records
GroupsWithRecords ==
  {t \in {df[i]["Item Type"] : i \in 1..Len(df)} : HasKey(statistics, FirstRecordName(t))}

\* C1: once compute_statistics has returned, every row of the table belongs
\* to an Item Type group that has metric records, so that the row counts of
\* the groups with records sum to the number of rows.
C1_GroupsCoverEveryRow ==
  StatisticsDone =>
    /\ \A i \in 1..Len(df) : df[i]["Item Type"] \in GroupsWithRecords
    /\ Cardinality({i \in 1..Len(df) : df[i]["Item Type"] \in GroupsWithRecords}) = Len(df)

(***************************************************************************)
(* C2                                                                      *)
(***************************************************************************)
\* the file holds a whole artifact of this run
CompleteResults(f) == f.state = "written" /\ f.lines = ResultsCsv(statistics, correlations)
CompleteAssessment(f) ==
  /\ f.state = "written"
  /\ \E i \in 1..Len(f.lines) : f.lines[i].kind = "summary"
CompleteDataIssues(f) ==
  /\ f.state = "written"
  /\ f.lines # <<>>
  /\ f.lines[Len(f.lines)].kind = "end_of_report"

Untouched(f) == f.state \in {"absent", "previous"}

\* C2: after the script has ended, normally or by an error, each output file
\* is the complete new artifact, or absent, or still its previous content.
C2_NoPartialArtifact ==
  RunEnded =>
    /\ Untouched(results_csv) \/ CompleteResults(results_csv)
    /\ Untouched(assessment_txt) \/ CompleteAssessment(assessment_txt)
    /\ Untouched(data_issues_txt) \/ CompleteDataIssues(data_issues_txt)

(***************************************************************************)
(* C3                                                                      *)
(***************************************************************************)
\* C3: once compute_statistics has returned, statistics holds exactly the
\* eight records of each of its Item Type groups, and a record whose rows
\* are none holds NaN.
C3_EmptyGroupIsNaN ==
  StatisticsDone =>
    /\ Len(statistics) = Len(ExpectedStatistics)
    /\ \A e \in Range(ExpectedStatistics) :
         /\ HasKey(statistics, e.name)
         /\ SelectedRows(e) = {} => Get(statistics, e.name) = NaN

\* a table with rows, of which none is a Distraktor row and no Stimulus row
\* asks for a recommended age, has had its statistics computed
C3_Witness ==
  /\ StatisticsDone
  /\ Len(df) > 0
  /\ \A i \in 1..Len(df) : df[i]["Item Type"] # "Distraktor"
  /\ \E i \in 1..Len(df) : df[i]["Item Type"] = "Stimulus"
  /\ \A i \in 1..Len(df) :
       df[i]["Item Type"] = "Stimulus" => df[i]["Age Question Type"] = "suitability"
  /\ Get(statistics, <<"d", "i", "s", "t", "r", "a", "k", "t", "o", "r", "_", "p", "o", "s", "_", "n", "e", "g", "_", "m", "e", "d", "i", "a", "n">>) = NaN
  /\ Get(statistics, <<"s", "t", "i", "m", "u", "l", "u", "s", "_", "r", "e", "c", "o", "m", "m", "e", "n", "d", "e", "d", "_", "a", "g", "e", "_", "m", "e", "a", "n">>) = NaN

(***************************************************************************)
(* C4                                                                      *)
(***************************************************************************)
RowsAsking(q) == {i \in 1..Len(df) : df[i]["Age Question Type"] = q}

\* C4: once compute_correlations has returned, a correlation is a key of
\* correlations if and only if the rows it is computed over are more than 2.
C4_CorrelationIffMoreThanTwoRows ==
  CorrelationsDone =>
    /\ HasKey(correlations, <<"e", "m", "o", "t", "i", "o", "n", "a", "l", "_", "v", "s", "_", "p", "o", "s", "_", "n", "e", "g">>) <=> Len(df) > 2
    /\ HasKey(correlations, <<"e", "m", "o", "t", "i", "o", "n", "a", "l", "_", "v", "s", "_", "a", "g", "e", "_", "s", "u", "i", "t", "a", "b", "i", "l", "i", "t", "y">>)
         <=> Cardinality(RowsAsking("suitability")) > 2
    /\ HasKey(correlations, <<"p", "o", "s", "_", "n", "e", "g", "_", "v", "s", "_", "a", "g", "e", "_", "s", "u", "i", "t", "a", "b", "i", "l", "i", "t", "y">>)
         <=> Cardinality(RowsAsking("suitability")) > 2
    /\ HasKey(correlations, <<"e", "m", "o", "t", "i", "o", "n", "a", "l", "_", "v", "s", "_", "a", "g", "e", "_", "r", "e", "c", "o", "m", "m", "e", "n", "d", "e", "d">>)
         <=> Cardinality(RowsAsking("age_recommendation")) > 2
    /\ HasKey(correlations, <<"p", "o", "s", "_", "n", "e", "g", "_", "v", "s", "_", "a", "g", "e", "_", "r", "e", "c", "o", "m", "m", "e", "n", "d", "e", "d">>)
         <=> Cardinality(RowsAsking("age_recommendation")) > 2
    /\ Len(correlations) =
         (IF Len(df) > 2 THEN 1 ELSE 0)
         + (IF Cardinality(RowsAsking("suitability")) > 2 THEN 2 ELSE 0)
         + (IF Cardinality(RowsAsking("age_recommendation")) > 2 THEN 2 ELSE 0)

\* the correlations of a table of four rows, two of them suitability rows and
\* two age_recommendation rows, hold the whole-table correlation alone
C4_Witness ==
  /\ CorrelationsDone
  /\ Len(df) = 4
  /\ Cardinality(RowsAsking("suitability")) = 2
  /\ Cardinality(RowsAsking("age_recommendation")) = 2
  /\ Keys(correlations) = << <<"e", "m", "o", "t", "i", "o", "n", "a", "l", "_", "v", "s", "_", "p", "o", "s", "_", "n", "e", "g">> >>

(***************************************************************************)
(* C5                                                                      *)
(***************************************************************************)
\* the Emotional values of the rows of an Item Type, in ascending order
EmotionalOf(item_type) ==
  SortInts(Cells({i \in 1..Len(df) : df[i]["Item Type"] = item_type}, "Emotional"))

\* C5: once compute_statistics has returned, every record whose rows are some
\* holds the mean, or the median, of its column over exactly those rows; and
\* Stimulus rows with Emotional 2 and 4 and Distraktor rows with Emotional 1
\* and 1 give the means and medians 3.0 and 1.0.
C5_MeanAndMedianOfTheGroup ==
  StatisticsDone =>
    /\ \A e \in Range(ExpectedStatistics) :
         SelectedRows(e) # {} =>
           IF e.stat = "mean"
           THEN IsMeanOf(Get(statistics, e.name), Cells(SelectedRows(e), e.col))
           ELSE IsMedianOf(Get(statistics, e.name), Cells(SelectedRows(e), e.col))
    /\ (EmotionalOf("Stimulus") = <<2, 4>> /\ EmotionalOf("Distraktor") = <<1, 1>>) =>
         /\ Get(statistics, <<"s", "t", "i", "m", "u", "l", "u", "s", "_", "e", "m", "o", "t", "i", "o", "n", "a", "l", "_", "m", "e", "a", "n">>) = FloatOfInt(3)
         /\ Get(statistics, <<"s", "t", "i", "m", "u", "l", "u", "s", "_", "e", "m", "o", "t", "i", "o", "n", "a", "l", "_", "m", "e", "d", "i", "a", "n">>) = FloatOfInt(3)
         /\ Get(statistics, <<"d", "i", "s", "t", "r", "a", "k", "t", "o", "r", "_", "e", "m", "o", "t", "i", "o", "n", "a", "l", "_", "m", "e", "a", "n">>) = FloatOfInt(1)
         /\ Get(statistics, <<"d", "i", "s", "t", "r", "a", "k", "t", "o", "r", "_", "e", "m", "o", "t", "i", "o", "n", "a", "l", "_", "m", "e", "d", "i", "a", "n">>) = FloatOfInt(1)

\* the statistics of the example table have been computed
C5_Witness ==
  /\ StatisticsDone
  /\ Len(df) = 4
  /\ EmotionalOf("Stimulus") = <<2, 4>>
  /\ EmotionalOf("Distraktor") = <<1, 1>>
  /\ Get(statistics, <<"s", "t", "i", "m", "u", "l", "u", "s", "_", "e", "m", "o", "t", "i", "o", "n", "a", "l", "_", "m", "e", "d", "i", "a", "n">>) = FloatOfInt(3)

(***************************************************************************)
(* C6                                                                      *)
(***************************************************************************)
\* the writes of the DUPLICATE ROWS section of the report
DuplicateSection ==
  LET lines == data_issues_txt.lines
      ends == {i \in 1..Len(lines) :
                 lines[i].kind = "heading" /\ lines[i].label = "ROWS WITH ZERO VALUES"}
  IN  IF ends = {} THEN lines
      ELSE SubSeq(lines, 1, (CHOOSE i \in ends : \A j \in ends : i <= j) - 1)

\* the numbers of the Duplicate Groups under which a CSV row is listed
GroupsListing(csv_row) ==
  LET lines == DuplicateSection
  IN  {g \in 1..Len(lines) :
         \E p \in 1..Len(lines) :
           /\ lines[p].kind = "csv_row" /\ lines[p].n = csv_row
           /\ \E h \in 1..(p - 1) :
                /\ lines[h].kind = "group" /\ lines[h].n = g
                /\ \A k \in (h + 1)..(p - 1) : lines[k].kind # "group"}

\* the DUPLICATE ROWS section has been written to its end
DuplicateSectionDone ==
  /\ data_issues_txt.state = "written"
  /\ pc \in {"zero_values", "completeness", "done"}
     \/ (pc = "error" /\ DuplicateSection # data_issues_txt.lines)

\* C6: two rows of the table are listed under the same Duplicate Group if and
\* only if they are equal in every column of the table.
C6_SameGroupIffEqualRows ==
  DuplicateSectionDone =>
    \A i, j \in 1..Len(df) :
      i # j => ((df[i] = df[j]) <=> (GroupsListing(i + 1) \cap GroupsListing(j + 1) # {}))

(***************************************************************************)
(* C7                                                                      *)
(***************************************************************************)
PageRefOrder == <<"A", "B", "C">>
Ascending(s) ==
  \A i \in 1..(Len(s) - 1) : IndexIn(s[i], PageRefOrder) < IndexIn(s[i + 1], PageRefOrder)

Universe == {df[i]["Page Ref"] : i \in 1..Len(df)}
Participants == {df[i]["Participant ID"] : i \in 1..Len(df)}
Answered(p) == {df[i]["Page Ref"] : i \in {k \in 1..Len(df) : df[k]["Participant ID"] = p}}

\* C7: once check_participant_completeness has returned, the keys of
\* missing_by_participant are the participants whose answered Page Refs leave
\* some of the universe out, each with exactly the Page Refs left out in
\* ascending order, and complete_participants counts the other participants.
C7_MissingByParticipant ==
  completeness # <<>> =>
    LET missing == completeness.missing_by_participant
    IN  /\ Range(Keys(missing)) \subseteq Participants
        /\ \A p \in Participants :
             /\ HasKey(missing, p) <=> (Universe \ Answered(p) # {})
             /\ HasKey(missing, p) =>
                  /\ Range(Get(missing, p)) = Universe \ Answered(p)
                  /\ Len(Get(missing, p)) = Cardinality(Universe \ Answered(p))
                  /\ Ascending(Get(missing, p))
        /\ completeness.complete_participants
             = Cardinality({p \in Participants : ~HasKey(missing, p)})

\* P1 has answered A and B of the universe A, B, C and misses C; P2 misses
\* A and B
C7_Witness ==
  /\ completeness # <<>>
  /\ Universe = {"A", "B", "C"}
  /\ Answered("P1") = {"A", "B"}
  /\ Get(completeness.missing_by_participant, "P1") = <<"C">>
  /\ Get(completeness.missing_by_participant, "P2") = <<"A", "B">>
  /\ completeness.complete_participants = 0

(***************************************************************************)
(* C8                                                                      *)
(***************************************************************************)
\* the merge of statistics and correlations: the keys of statistics, then the
\* new keys of correlations, a key of both with the value of correlations
ExpectedMerge ==
  LET names == Keys(statistics)
               \o SelectSeq(Keys(correlations), LAMBDA k : ~HasKey(statistics, k))
  IN  [i \in 1..Len(names) |->
         [Metric |-> names[i],
          Value |-> IF HasKey(correlations, names[i]) THEN Get(correlations, names[i])
                    ELSE Get(statistics, names[i])]]

\* C8: the rows load_results reads from results.csv are the merge of the
\* statistics and the correlations: one row per name, the names unchanged and
\* in insertion order, a name of both with the correlation's value, and NaN
\* read back as NaN.
C8_RoundTrip ==
  pc = "loaded" =>
    /\ Len(results) = Len(ExpectedMerge)
    /\ \A i \in 1..Len(results) :
         /\ DOMAIN results[i] = {H_Metric, H_Value}
         /\ results[i][H_Metric] = ExpectedMerge[i].Metric
         /\ results[i][H_Value] = ExpectedMerge[i].Value

\* a file has been read back whose mappings share a name with two values,
\* hold a NaN and hold a negative number
C8_Witness ==
  /\ pc = "loaded"
  /\ \E k \in Range(Keys(statistics)) :
       /\ HasKey(correlations, k)
       /\ Get(correlations, k) # Get(statistics, k)
  /\ \E i \in 1..Len(results) : results[i][H_Value] = NaN
  /\ \E i \in 1..Len(results) : results[i][H_Value] = Num(-(Scale \div 4))
  /\ Len(results) = 3

(***************************************************************************)
(* C9                                                                      *)
(***************************************************************************)
\* the chart label of a correlation name
ExpectedLabel(name) ==
  CASE name = <<"e", "m", "o", "t", "i", "o", "n", "a", "l", "_", "v", "s", "_", "p", "o", "s", "_", "n", "e", "g">> -> <<"E", "m", "o", "t", "i", "o", "n", "a", "l", " ", "V", "s", " ", "P", "o", "s", " ", "N", "e", "g">>
    [] name = <<"e", "m", "o", "t", "i", "o", "n", "a", "l", "_", "v", "s", "_", "a", "g", "e", "_", "s", "u", "i", "t", "a", "b", "i", "l", "i", "t", "y">> -> <<"E", "m", "o", "t", "i", "o", "n", "a", "l", " ", "V", "s", " ", "A", "g", "e", " ", "S", "u", "i", "t", "a", "b", "i", "l", "i", "t", "y">>
    [] name = <<"p", "o", "s", "_", "n", "e", "g", "_", "v", "s", "_", "a", "g", "e", "_", "s", "u", "i", "t", "a", "b", "i", "l", "i", "t", "y">> -> <<"P", "o", "s", " ", "N", "e", "g", " ", "V", "s", " ", "A", "g", "e", " ", "S", "u", "i", "t", "a", "b", "i", "l", "i", "t", "y">>
    [] name = <<"e", "m", "o", "t", "i", "o", "n", "a", "l", "_", "v", "s", "_", "a", "g", "e", "_", "r", "e", "c", "o", "m", "m", "e", "n", "d", "e", "d">> -> <<"E", "m", "o", "t", "i", "o", "n", "a", "l", " ", "V", "s", " ", "A", "g", "e", " ", "R", "e", "c", "o", "m", "m", "e", "n", "d", "e", "d">>
    [] name = <<"p", "o", "s", "_", "n", "e", "g", "_", "v", "s", "_", "a", "g", "e", "_", "r", "e", "c", "o", "m", "m", "e", "n", "d", "e", "d">> -> <<"P", "o", "s", " ", "N", "e", "g", " ", "V", "s", " ", "A", "g", "e", " ", "R", "e", "c", "o", "m", "m", "e", "n", "d", "e", "d">>

\* C9: the dashboard parses the name of every record of compute_statistics
\* into its capitalised Item Type, the column of its field and Mean or
\* Median, and keeps every name of compute_correlations out of the statistics
\* chart data and in the correlation chart data.
C9_NameParsing ==
  pc = "rendered" =>
    /\ Len(stats_data) = Len(ExpectedStatistics)
    /\ \A i \in 1..Len(stats_data) :
         /\ stats_data[i].ItemType = ExpectedStatistics[i].item_chars
         /\ stats_data[i].Column = ExpectedStatistics[i].column
         /\ stats_data[i].Statistic = ExpectedStatistics[i].statistic
         /\ stats_data[i].Value = Get(statistics, ExpectedStatistics[i].name)
    /\ Len(corr_data) = Len(correlations)
    /\ \A i \in 1..Len(corr_data) :
         /\ corr_data[i].Correlation = ExpectedLabel(correlations[i].k)
         /\ corr_data[i].Value = correlations[i].v

\* the dashboard has parsed a results.csv holding the sixteen statistics, the
\* whole-table correlation and the two age_recommendation correlations
C9_Witness ==
  /\ pc = "rendered"
  /\ Len(stats_data) = 16
  /\ Len(corr_data) = 3
  /\ corr_data[3].Correlation = <<"P", "o", "s", " ", "N", "e", "g", " ", "V", "s", " ", "A", "g", "e", " ", "R", "e", "c", "o", "m", "m", "e", "n", "d", "e", "d">>

(***************************************************************************)
(* C10                                                                     *)
(***************************************************************************)
\* the CSV row numbers of the rows with a zero, in the order of the table
ZeroRowNumbers ==
  LET at == SelectSeq([i \in 1..Len(df) |-> i],
                      LAMBDA i : \/ df[i]["Emotional"] = 0
                                 \/ df[i]["Pos / Neg"] = 0
                                 \/ df[i]["Age Answer"] = 0)
  IN  [k \in 1..Len(at) |-> at[k] + 1]

\* the writes of the ROWS WITH ZERO VALUES section of the report
ZeroSection ==
  LET lines == data_issues_txt.lines
      from == {i \in 1..Len(lines) :
                 lines[i].kind = "heading" /\ lines[i].label = "ROWS WITH ZERO VALUES"}
      to == {i \in 1..Len(lines) :
               lines[i].kind = "heading" /\ lines[i].label = "PARTICIPANT QUESTION COMPLETENESS"}
  IN  IF from = {} THEN <<>>
      ELSE SubSeq(lines, CHOOSE i \in from : TRUE,
                  IF to = {} THEN Len(lines) ELSE (CHOOSE i \in to : TRUE) - 1)

\* the ROWS WITH ZERO VALUES section has been run
ZeroSectionRun ==
  /\ data_issues_txt.state = "written"
  /\ ZeroSection # <<>>
  /\ pc # "zero_values"

\* what find_zero_values returned is the rows with a zero, once each, in the
\* order of the table
ZeroRowsReturned ==
  /\ [k \in 1..Len(zero_rows) |-> zero_rows[k][RowNumberColumn]] = ZeroRowNumbers
  /\ \A k \in 1..Len(zero_rows) :
       Project(zero_rows[k], Range(columns)) = df[zero_rows[k][RowNumberColumn] - 1]

\* C10: find_zero_values returns exactly the rows with Emotional = 0 or
\* Pos / Neg = 0 or Age Answer = 0, once each and in the order of the table,
\* and the report holds the whole entry of each returned row.
C10_ZeroRowsReturnedAndWritten ==
  ZeroSectionRun =>
    /\ ZeroRowsReturned
    /\ LET entries == SelectSeq(ZeroSection, LAMBDA l : l.kind = "csv_row")
           texts == SelectSeq(ZeroSection, LAMBDA l : l.kind = "text")
       IN  /\ [k \in 1..Len(entries) |-> entries[k].n] = ZeroRowNumbers
           /\ Len(texts) = Len(ZeroRowNumbers)

\* the rows find_zero_values returns, apart from what the report holds of them
C10_ZeroRowsReturned == ZeroSectionRun => ZeroRowsReturned

(***************************************************************************)
(* C11                                                                     *)
(***************************************************************************)
\* the 'Duplicate rows' lines of the assessment report
DuplicateRowsLines == SelectSeq(assessment_txt.lines, LAMBDA l : l.kind = "duplicate_rows")

\* the auditor's DUPLICATE ROWS section says 'No duplicate rows found.'
SaysNoDuplicates == \E i \in 1..Len(DuplicateSection) : DuplicateSection[i].kind = "no_duplicates"

\* both reports of the table have been written as far as their duplicates
BothReportsWritten ==
  /\ assessment_txt.state = "written"
  /\ DuplicateRowsLines # <<>>
  /\ data_issues_txt.state = "written"

PairwiseDistinct == \A i, j \in 1..Len(df) : i # j => df[i] # df[j]

\* C11: once both reports of a table are written, the auditor's report says
\* 'No duplicate rows found.' if and only if the assessment report's
\* 'Duplicate rows' count is 0, and that is so if and only if the rows of the
\* table are pairwise distinct.
C11_ReportsAgreeOnDuplicates ==
  BothReportsWritten =>
    /\ Len(DuplicateRowsLines) = 1
    /\ SaysNoDuplicates <=> (DuplicateRowsLines[1].n = 0)
    /\ (DuplicateRowsLines[1].n = 0) <=> PairwiseDistinct

\* both reports of a table whose only equal rows are two rows without Text,
\* with a row between them
C11_Witness ==
  /\ BothReportsWritten
  /\ Len(df) = 3
  /\ df[1] = df[3] /\ df[1] # df[2]
  /\ "Text" \in DOMAIN df[1] /\ df[1]["Text"] = NA
  /\ DuplicateRowsLines[1].n = 1
  /\ ~SaysNoDuplicates

(***************************************************************************)
(* C12                                                                     *)
(***************************************************************************)
\* the N of 'Found N rows involved in duplication'
FoundLines == SelectSeq(DuplicateSection, LAMBDA l : l.kind = "found_duplicates")

\* the numbers of the Duplicate Groups in the order written
GroupNumbers ==
  LET heads == SelectSeq(DuplicateSection, LAMBDA l : l.kind = "group")
  IN  [k \in 1..Len(heads) |-> heads[k].n]

\* how often a CSV row is listed in the DUPLICATE ROWS section
TimesListed(csv_row) ==
  Len(SelectSeq(DuplicateSection, LAMBDA l : l.kind = "csv_row" /\ l.n = csv_row))

\* C12: once the DUPLICATE ROWS section is written, each of the N rows of
\* 'Found N rows involved in duplication' (the rows of the table equal to
\* another row, rows with a missing value included) is listed once, under
\* exactly one Duplicate Group, and the groups are numbered 1, 2, ...
C12_EveryCountedRowListed ==
  (DuplicateSectionDone /\ FoundLines # <<>>) =>
    /\ FoundLines[1].n = Len(duplicates)
    /\ \A k \in 1..Len(duplicates) :
         LET csv_row == duplicates[k][RowNumberColumn]
         IN  /\ TimesListed(csv_row) = 1
             /\ Cardinality(GroupsListing(csv_row)) = 1
    /\ GroupNumbers = [k \in 1..Len(GroupNumbers) |-> k]

(***************************************************************************)
(* C13                                                                     *)
(***************************************************************************)
\* the positions of the table, counted from 1, that Selected picks, ascending
PositionsWhere(Selected(_)) == SelectSeq([i \in 1..Len(df) |-> i], Selected)

\* result is the rows of the table at the positions Selected picks, each with
\* its cells and with the line of the input file it stands on: the header is
\* line 1, so the row at position p counted from 1 (p - 1 counted from 0)
\* is line p + 1
CarryTheirLines(result, Selected(_)) ==
  LET at == PositionsWhere(Selected)
  IN  /\ Len(result) = Len(at)
      /\ \A k \in 1..Len(at) :
           /\ result[k][RowNumberColumn] = (at[k] - 1) + 2
           /\ Project(result[k], Range(columns)) = df[at[k]]

\* find_duplicates has returned
DuplicatesReturned == pc # "duplicates"

\* C13: the rows find_duplicates and find_zero_values return carry as
\* 'CSV Row Number' their line in the input file, i + 2 for the row at
\* position i counted from 0, whatever rows before them were left out.
C13_RowNumberIsFileLine ==
  /\ DuplicatesReturned =>
       CarryTheirLines(duplicates,
                       LAMBDA i : \E j \in 1..Len(df) : j # i /\ df[j] = df[i])
  /\ ZeroSectionRun =>
       CarryTheirLines(zero_rows,
                       LAMBDA i : \/ df[i]["Emotional"] = 0
                                  \/ df[i]["Pos / Neg"] = 0
                                  \/ df[i]["Age Answer"] = 0)

\* both functions have returned rows that stand after a row left out: the
\* first data row is in neither result
C13_Witness ==
  /\ ZeroSectionRun
  /\ pc = "completeness"
  /\ Len(df) >= 3
  /\ duplicates # <<>> /\ duplicates[1][RowNumberColumn] = 3
  /\ zero_rows # <<>> /\ zero_rows[1][RowNumberColumn] > 2
  /\ zero_rows[Len(zero_rows)][RowNumberColumn] = Len(df) + 1
====
